---- MODULE Spec2Model ----
(***************************************************************************)
(* A model of the rcs_core simulation engine: Cell, Agent and the World    *)
(* tick (regeneration, allocation, per-agent step with death handling).    *)
(* One World::update() is the sequence of actions                          *)
(*   CellsUpdate -> AllocateResources -> StepAgent (one per agent id, in   *)
(*   id order) -> ReturnOk                                                 *)
(* so that the intermediate points of a tick are states of the model.      *)
(***************************************************************************)
EXTENDS Integers, Sequences, FiniteSets, TLC

VARIABLES
    size,            \* World.size = <<width, height>>
    cells,           \* World.cells : 0..width*height-1 -> Cell
    agents,          \* World.agents : 0..n-1 -> Agent
    pc,              \* the statement of World::update that runs next
    next_id,         \* loop variable of step_all_agents
    result,          \* what the last update() call returned
    ticks,           \* number of completed update() calls
    neighbor_cells,  \* the neighbor list last handed to decide_move
    target,          \* what decide_move returned for it
    tick_start,      \* observer: cells and agents when the current tick began
    after_regen,     \* observer: cells right after the regeneration loop
    after_alloc,     \* observer: cells and agents right after allocation
    last_step,       \* observer: what the last step_agent call did
    built,           \* observer: the agents as the world was constructed
    op_call,         \* a Cell, Agent or make_world call made on its own
    op_ret           \* what that call returned

vars == <<size, cells, agents, pc, next_id, result, ticks, neighbor_cells,
          target, tick_start, after_regen, after_alloc, last_step, built,
          op_call, op_ret>>

----------------------------------------------------------------------------
(* Bounds of the model *)

MaxTicks == 3
MaxAgents == 2
MaxNeighbors == 3

(* The greatest value of the machine word of the resource arithmetic.  The *)
(* source's word is u32; TLC's integers are 32-bit signed, so the model's   *)
(* word is narrower.  It is far above every value a run produces.           *)
WordMax == 1073741823

Min(a, b) == IF a < b THEN a ELSE b

\* as saturating_add, but wrapping around the word
wrapping_add(a, b) == (a + b) % (WordMax + 1)

saturating_add(a, b) == IF a + b > WordMax THEN WordMax ELSE a + b

saturating_sub(a, b) == IF a < b THEN 0 ELSE a - b

----------------------------------------------------------------------------
(* Cell (cell.rs) *)

Cell_new(id, cur_resource, max_resource, regen_rate, max_regen_rate) ==
    [id |-> id, cur_resource |-> cur_resource, max_resource |-> max_resource,
     regen_rate |-> regen_rate, max_regen_rate |-> max_regen_rate]

Cell_add_resource_nocap(c, resource) ==
    [c EXCEPT !.cur_resource = saturating_add(c.cur_resource, resource)]

Cell_add_resource(c, resource) ==
    [c EXCEPT !.cur_resource =
        Min(saturating_add(c.cur_resource, resource), c.max_resource)]

\* as resource_consumption, but a request for all the cell holds fails too
Cell_resource_consumption_strict(c, resource) ==
    IF c.cur_resource <= resource
    THEN [cell |-> c, ok |-> FALSE, value |-> c.cur_resource]
    ELSE [cell |-> [c EXCEPT !.cur_resource = c.cur_resource - resource],
          ok |-> TRUE, value |-> resource]

\* ok = TRUE is Ok(value); ok = FALSE is
\* Err(NotEnoughResources { available: value })
Cell_resource_consumption(c, resource) ==
    IF c.cur_resource < resource
    THEN [cell |-> c, ok |-> FALSE, value |-> c.cur_resource]
    ELSE [cell |-> [c EXCEPT !.cur_resource = c.cur_resource - resource],
          ok |-> TRUE, value |-> resource]

\* as take_up_to, but what is returned is what was asked for
Cell_take_up_to_want(c, want) ==
    LET take == Min(want, c.cur_resource)
    IN  [cell |-> [c EXCEPT !.cur_resource = c.cur_resource - take],
         take |-> want]

\* returns the cell after the call and the amount taken
Cell_take_up_to(c, want) ==
    LET take == Min(want, c.cur_resource)
    IN  [cell |-> [c EXCEPT !.cur_resource = c.cur_resource - take],
         take |-> take]

\* as increase_rate, but the rate rises by twice the argument
Cell_increase_rate_double(c, regen_rate) ==
    [c EXCEPT !.regen_rate =
        Min(saturating_add(c.regen_rate, 2 * regen_rate), c.max_regen_rate)]

Cell_increase_rate(c, regen_rate) ==
    [c EXCEPT !.regen_rate =
        Min(saturating_add(c.regen_rate, regen_rate), c.max_regen_rate)]

Cell_update_nocap(c) ==
    [c EXCEPT !.cur_resource = saturating_add(c.cur_resource, c.regen_rate)]

\* as update, but nothing regenerates
Cell_update_idle(c) == c

Cell_update(c) ==
    [c EXCEPT !.cur_resource =
        Min(saturating_add(c.cur_resource, c.regen_rate), c.max_resource)]

----------------------------------------------------------------------------
(* Agent (agent.rs) *)

Agent_new(id, cid, consumption_rate, allocated_resource, health_point, alive) ==
    [id |-> id, cid |-> cid, consumption_rate |-> consumption_rate,
     allocated_resource |-> allocated_resource,
     health_point |-> health_point, alive |-> alive]

\* as metabolize, but a fed agent regains a health point
Agent_metabolize_heal(a) ==
    LET hp == IF a.allocated_resource < a.consumption_rate
              THEN saturating_sub(a.health_point, 1)
              ELSE a.health_point + 1
    IN  [a EXCEPT !.health_point = hp,
                  !.allocated_resource = 0,
                  !.alive = IF hp = 0 THEN FALSE ELSE a.alive]

\* as metabolize, but the agent stays alive at health 0
Agent_metabolize_undying(a) ==
    LET hp == IF a.allocated_resource < a.consumption_rate
              THEN saturating_sub(a.health_point, 1)
              ELSE a.health_point
    IN  [a EXCEPT !.health_point = hp,
                  !.allocated_resource = 0]

\* as metabolize, but allocated_resource is not reset
Agent_metabolize_keep(a) ==
    LET hp == IF a.allocated_resource < a.consumption_rate
              THEN saturating_sub(a.health_point, 1)
              ELSE a.health_point
    IN  [a EXCEPT !.health_point = hp,
                  !.alive = IF hp = 0 THEN FALSE ELSE a.alive]

Agent_metabolize(a) ==
    LET hp == IF a.allocated_resource < a.consumption_rate
              THEN saturating_sub(a.health_point, 1)
              ELSE a.health_point
    IN  [a EXCEPT !.health_point = hp,
                  !.allocated_resource = 0,
                  !.alive = IF hp = 0 THEN FALSE ELSE a.alive]

\* as movement_cost, but moving costs nothing
Agent_movement_cost_free(a) == a

Agent_movement_cost(a) ==
    LET hp == saturating_sub(a.health_point, 1)
    IN  [a EXCEPT !.health_point = hp,
                  !.alive = IF hp = 0 THEN FALSE ELSE a.alive]

\* as move_to, without the check that the agent is alive
Agent_move_to_nocheck(a, new_id) ==
    [agent |-> Agent_movement_cost([a EXCEPT !.cid = new_id]), ok |-> TRUE]

\* ok = FALSE is Err(NotAlive)
Agent_move_to(a, new_id) ==
    IF ~a.alive
    THEN [agent |-> a, ok |-> FALSE]
    ELSE [agent |-> Agent_movement_cost([a EXCEPT !.cid = new_id]), ok |-> TRUE]

\* as retrieve_resource, but the agent takes all that is offered
Agent_retrieve_resource_all(a, resource) ==
    [agent |-> [a EXCEPT !.allocated_resource = resource], leftover |-> 0]

\* as retrieve_resource, but the grant is added to the prior allocation
Agent_retrieve_resource_add(a, resource) ==
    LET take == Min(resource, a.consumption_rate)
    IN  [agent |-> [a EXCEPT !.allocated_resource =
                        a.allocated_resource + take],
         leftover |-> resource - take]

\* returns the agent after the call and the leftover
Agent_retrieve_resource(a, resource) ==
    LET take == Min(resource, a.consumption_rate)
    IN  [agent |-> [a EXCEPT !.allocated_resource = take],
         leftover |-> resource - take]

Agent_is_alive(a) == a.alive

\* as is_hungry, but an agent holding exactly its consumption_rate is hungry
Agent_is_hungry_fed(a) == a.allocated_resource <= a.consumption_rate

Agent_is_hungry(a) == a.allocated_resource < a.consumption_rate

\* Option<usize>: <<>> is None, <<cid>> is Some(cid)
None == <<>>
Some(x) == <<x>>

\* Iterator::max_by_key as agent.rs:137-140 uses it: a left fold that keeps
\* the element seen so far only when its key is strictly greater, so that
\* of several equally maximum elements the last one is returned.
RECURSIVE max_by_key(_, _)
max_by_key(best, rest) ==
    IF rest = <<>> THEN best
    ELSE IF best[2] > Head(rest)[2]
         THEN max_by_key(best, Tail(rest))
         ELSE max_by_key(Head(rest), Tail(rest))

RECURSIVE max_by_key_first(_, _)
max_by_key_first(best, rest) ==
    IF rest = <<>> THEN best
    ELSE IF best[2] >= Head(rest)[2]
         THEN max_by_key_first(best, Tail(rest))
         ELSE max_by_key_first(Head(rest), Tail(rest))

\* neighbors: a sequence of <<cell id, resource>>
Agent_decide_move_first(neighbors) ==
    IF neighbors = <<>> THEN None
    ELSE LET best == max_by_key_first(Head(neighbors), Tail(neighbors))
         IN  IF best[2] > 0 THEN Some(best[1]) ELSE None

Agent_decide_move_resource(neighbors) ==
    IF neighbors = <<>> THEN None
    ELSE LET best == max_by_key(Head(neighbors), Tail(neighbors))
         IN  IF best[2] > 0 THEN Some(best[2]) ELSE None

Agent_decide_move_any(neighbors) ==
    IF neighbors = <<>> THEN None
    ELSE LET best == max_by_key(Head(neighbors), Tail(neighbors))
         IN  Some(best[1])

Agent_decide_move(neighbors) ==
    IF neighbors = <<>> THEN None
    ELSE LET best == max_by_key(Head(neighbors), Tail(neighbors))
         IN  IF best[2] > 0 THEN Some(best[1]) ELSE None

\* no call made on its own: the world is running, or nothing was called yet
NoCall == [op |-> "none", arg |-> <<>>]
NoRet == <<>>

\* as update, without the check that the agent is alive
Agent_update_nocheck(a) == [agent |-> Agent_metabolize(a), ok |-> TRUE]

\* ok = FALSE is Err(NotAlive)
Agent_update(a) ==
    IF ~a.alive
    THEN [agent |-> a, ok |-> FALSE]
    ELSE [agent |-> Agent_metabolize(a), ok |-> TRUE]

----------------------------------------------------------------------------
(* World (world.rs) *)

corpse_resource == 5
regen_bonus == 1

NumCells(sz) == sz[1] * sz[2]

NumAgents(ags) == Cardinality(DOMAIN ags)

\* The cell ids neighbor_cells_info visits for cid: above, below, left, right,
\* each only when it lies on the grid.
neighbor_ids_wrap(sz, cid) ==
    LET width == sz[1]
        height == sz[2]
        x == cid % width
        y == cid \div width
    IN  (IF y > 0 THEN <<(y - 1) * width + x>> ELSE <<>>)
        \o (IF y + 1 < height THEN <<(y + 1) * width + x>> ELSE <<>>)
        \o (IF x > 0 THEN <<y * width + (x - 1)>> ELSE <<>>)
        \o <<y * width + (x + 1)>>

neighbor_ids(sz, cid) ==
    LET width == sz[1]
        height == sz[2]
        x == cid % width
        y == cid \div width
    IN  (IF y > 0 THEN <<(y - 1) * width + x>> ELSE <<>>)
        \o (IF y + 1 < height THEN <<(y + 1) * width + x>> ELSE <<>>)
        \o (IF x > 0 THEN <<y * width + (x - 1)>> ELSE <<>>)
        \o (IF x + 1 < width THEN <<y * width + (x + 1)>> ELSE <<>>)

\* as neighbor_cells_info, but the resources are those the cells held when
\* allocation ended
neighbor_cells_info_stale(sz, cs, cid) ==
    LET ids == neighbor_ids(sz, cid)
    IN  IF \E i \in 1..Len(ids) : ids[i] \notin DOMAIN cs
        THEN [panic |-> TRUE, neighbors |-> <<>>]
        ELSE [panic |-> FALSE,
              neighbors |-> [i \in 1..Len(ids) |->
                                <<ids[i], after_alloc.cells[ids[i]].cur_resource>>]]

\* panic: self.cells[nid] indexed out of range
neighbor_cells_info(sz, cs, cid) ==
    LET ids == neighbor_ids(sz, cid)
    IN  IF \E i \in 1..Len(ids) : ids[i] \notin DOMAIN cs
        THEN [panic |-> TRUE, neighbors |-> <<>>]
        ELSE [panic |-> FALSE,
              neighbors |-> [i \in 1..Len(ids) |->
                                <<ids[i], cs[ids[i]].cur_resource>>]]

\* cell_to_agents[cid]: the indices of the agents pushed for cid, ascending
RECURSIVE residents_from(_, _, _)
residents_from(ags, cid, i) ==
    IF i >= NumAgents(ags) THEN <<>>
    ELSE (IF ags[i].cid = cid THEN <<i>> ELSE <<>>)
         \o residents_from(ags, cid, i + 1)

cell_to_agents_with_dead(ags, cid) == residents_from(ags, cid, 0)

RECURSIVE alive_residents_from(_, _, _)
alive_residents_from(ags, cid, i) ==
    IF i >= NumAgents(ags) THEN <<>>
    ELSE (IF Agent_is_alive(ags[i]) /\ ags[i].cid = cid THEN <<i>> ELSE <<>>)
         \o alive_residents_from(ags, cid, i + 1)

cell_to_agents(ags, cid) == alive_residents_from(ags, cid, 0)

\* as serve_residents, but the leftovers are not added to remaining
RECURSIVE serve_residents_drop(_, _, _, _)
serve_residents_drop(ags, indices, base_share, remaining) ==
    IF indices = <<>>
    THEN [agents |-> ags, remaining |-> remaining]
    ELSE LET i == Head(indices)
             r == Agent_retrieve_resource(ags[i], base_share)
         IN  serve_residents_drop([ags EXCEPT ![i] = r.agent], Tail(indices),
                                  base_share, remaining)

\* the loop of world.rs:193-196 over one cell's residents
RECURSIVE serve_residents(_, _, _, _)
serve_residents(ags, indices, base_share, remaining) ==
    IF indices = <<>>
    THEN [agents |-> ags, remaining |-> remaining]
    ELSE LET i == Head(indices)
             r == Agent_retrieve_resource(ags[i], base_share)
         IN  serve_residents([ags EXCEPT ![i] = r.agent], Tail(indices),
                             base_share, remaining + r.leftover)

\* one iteration of the loop of world.rs:179-199; w = [cells, agents, panic]
allocate_cell(w, cid) ==
    LET agent_indices == cell_to_agents(w.agents, cid)
        total == w.cells[cid].cur_resource
    IN  IF agent_indices = <<>> \/ total = 0
        THEN w
        ELSE LET n == Len(agent_indices)
                 base_share == total \div n
                 s == serve_residents(w.agents, agent_indices, base_share,
                                      total - base_share * n)
                 spent == total - s.remaining
             IN  IF s.remaining > WordMax \/ spent < 0
                 THEN [w EXCEPT !.agents = s.agents, !.panic = TRUE]
                 ELSE [cells |-> [w.cells EXCEPT ![cid] =
                                    Cell_take_up_to(w.cells[cid], spent).cell],
                       agents |-> s.agents,
                       panic |-> FALSE]

RECURSIVE allocate_from(_, _)
allocate_from(w, cid) ==
    IF w.panic \/ cid \notin DOMAIN w.cells
    THEN w
    ELSE allocate_from(allocate_cell(w, cid), cid + 1)

\* panic: cell_to_agents[cid] indexed out of range, or total - remaining < 0
allocate_resources(cs, ags) ==
    IF \E i \in DOMAIN ags : Agent_is_alive(ags[i]) /\ ags[i].cid \notin DOMAIN cs
    THEN [cells |-> cs, agents |-> ags, panic |-> TRUE]
    ELSE allocate_from([cells |-> cs, agents |-> ags, panic |-> FALSE], 0)

\* as handle_agent_death, without the regen-rate bonus
handle_agent_death_norate(w, id) ==
    LET cid == w.agents[id].cid
    IN  IF cid \notin DOMAIN w.cells
        THEN [w EXCEPT !.panic = TRUE]
        ELSE [w EXCEPT !.cells[cid] =
                Cell_add_resource(w.cells[cid], corpse_resource)]

handle_agent_death(w, id) ==
    LET cid == w.agents[id].cid
    IN  IF cid \notin DOMAIN w.cells
        THEN [w EXCEPT !.panic = TRUE]
        ELSE [w EXCEPT !.cells[cid] =
                Cell_increase_rate(
                    Cell_add_resource(w.cells[cid], corpse_resource),
                    regen_bonus)]

NoStep == [id |-> -1, acted |-> FALSE, moved |-> FALSE, died |-> "no"]

\* as step_agent, but an agent that moved is fed again from its new cell
step_agent_requery(sz, w, id) ==
    LET a == w.agents[id]
        quiet == [cells |-> w.cells, agents |-> w.agents, panic |-> FALSE,
                  called |-> FALSE, neighbors |-> <<>>, target |-> None,
                  obs |-> [NoStep EXCEPT !.id = id]]
    IN
    IF ~Agent_is_alive(a) THEN quiet
    ELSE
    LET hungry == Agent_is_hungry(a)
        info == IF hungry THEN neighbor_cells_info(sz, w.cells, a.cid)
                ELSE [panic |-> FALSE, neighbors |-> <<>>]
    IN
    IF info.panic THEN [quiet EXCEPT !.panic = TRUE]
    ELSE
    LET tgt == IF hungry THEN Agent_decide_move(info.neighbors) ELSE None
        moved == IF tgt # None THEN Agent_move_to(a, tgt[1]).agent ELSE a
        fed == IF tgt # None
               THEN Agent_retrieve_resource(moved,
                        w.cells[tgt[1]].cur_resource)
               ELSE [agent |-> moved, leftover |-> 0]
        a1 == fed.agent
        cs1 == IF tgt # None
               THEN [w.cells EXCEPT ![tgt[1]] =
                        Cell_take_up_to(w.cells[tgt[1]],
                                        a1.allocated_resource).cell]
               ELSE w.cells
        w1 == [cells |-> cs1, agents |-> [w.agents EXCEPT ![id] = a1],
               panic |-> FALSE]
        a2 == Agent_update(a1).agent
        w2 == [w1 EXCEPT !.agents[id] = a2]
        w3 == IF ~Agent_is_alive(a1) THEN handle_agent_death(w1, id)
              ELSE IF ~Agent_is_alive(a2) THEN handle_agent_death(w2, id)
              ELSE w2
    IN  [cells |-> w3.cells, agents |-> w3.agents, panic |-> w3.panic,
         called |-> hungry, neighbors |-> info.neighbors, target |-> tgt,
         obs |-> [id |-> id, acted |-> TRUE, moved |-> tgt # None,
                  died |-> IF ~Agent_is_alive(a1) THEN "move"
                           ELSE IF ~Agent_is_alive(a2) THEN "metabolism"
                           ELSE "no"]]

\* w = [cells, agents, panic]; the result adds what decide_move was given and
\* returned, and an observation of the step
step_agent(sz, w, id) ==
    LET a == w.agents[id]
        quiet == [cells |-> w.cells, agents |-> w.agents, panic |-> FALSE,
                  called |-> FALSE, neighbors |-> <<>>, target |-> None,
                  obs |-> [NoStep EXCEPT !.id = id]]
    IN
    IF ~Agent_is_alive(a) THEN quiet
    ELSE
    LET hungry == Agent_is_hungry(a)
        info == IF hungry THEN neighbor_cells_info(sz, w.cells, a.cid)
                ELSE [panic |-> FALSE, neighbors |-> <<>>]
    IN
    IF info.panic THEN [quiet EXCEPT !.panic = TRUE]
    ELSE
    LET tgt == IF hungry THEN Agent_decide_move(info.neighbors) ELSE None
        a1 == IF tgt # None THEN Agent_move_to(a, tgt[1]).agent ELSE a
        w1 == [w EXCEPT !.agents[id] = a1]
        a2 == Agent_update(a1).agent
        w2 == [w EXCEPT !.agents[id] = a2]
        w3 == IF ~Agent_is_alive(a1) THEN handle_agent_death(w1, id)
              ELSE IF ~Agent_is_alive(a2) THEN handle_agent_death(w2, id)
              ELSE w2
    IN  [cells |-> w3.cells, agents |-> w3.agents, panic |-> w3.panic,
         called |-> hungry, neighbors |-> info.neighbors, target |-> tgt,
         obs |-> [id |-> id, acted |-> TRUE, moved |-> tgt # None,
                  died |-> IF ~Agent_is_alive(a1) THEN "move"
                           ELSE IF ~Agent_is_alive(a2) THEN "metabolism"
                           ELSE "no"]]

----------------------------------------------------------------------------
(* Initial worlds.  World::make_world (world.rs:48-88) builds every cell   *)
(* with max_resource 20 and max_regen_rate 3 and every agent alive with    *)
(* allocated_resource 0; the sets below sample its random ranges.          *)

make_world_max_resource == 20
make_world_max_regen_rate == 3

GridSizes == {<<2, 2>>, <<3, 1>>}

\* <<cur_resource, regen_rate>> of a generated cell
InitCellValues == {<<0, 0>>, <<6, 3>>, <<18, 3>>}

\* <<consumption_rate, health_point>> of a generated agent
InitAgentValues == {<<1, 3>>, <<5, 1>>, <<5, 3>>}

\* where agents start: the first and the last cell of the grid
StartCells(sz) == {0, NumCells(sz) - 1}

InitCells(sz) ==
    {[i \in 0..(NumCells(sz) - 1) |->
        Cell_new(i, v[i][1], make_world_max_resource, v[i][2],
                 make_world_max_regen_rate)] :
     v \in [0..(NumCells(sz) - 1) -> InitCellValues]}

InitAgents(sz, n) ==
    {[i \in 0..(n - 1) |->
        Agent_new(i, c[i], v[i][1], 0, v[i][2], TRUE)] :
     c \in [0..(n - 1) -> StartCells(sz)],
     v \in [0..(n - 1) -> InitAgentValues]}

NotCalled == [called |-> FALSE, ret |-> None]

Init ==
    /\ size \in GridSizes
    /\ cells \in InitCells(size)
    /\ \E n \in 0..MaxAgents : agents \in InitAgents(size, n)
    /\ pc = "cells_update"
    /\ next_id = 0
    /\ result = "none"
    /\ ticks = 0
    /\ neighbor_cells = <<>>
    /\ target = NotCalled
    /\ tick_start = [cells |-> cells, agents |-> agents]
    /\ after_regen = cells
    /\ after_alloc = [cells |-> cells, agents |-> agents]
    /\ last_step = NoStep
    /\ built = agents
    /\ op_call = NoCall
    /\ op_ret = NoRet

----------------------------------------------------------------------------
(* World::update (world.rs:246-255) *)

\* world.rs:247-249
CellsUpdate ==
    /\ pc = "cells_update"
    /\ ticks < MaxTicks
    /\ cells' = [i \in DOMAIN cells |-> Cell_update(cells[i])]
    /\ after_regen' = cells'
    /\ tick_start' = [cells |-> cells, agents |-> agents]
    /\ pc' = "allocate_resources"
    /\ neighbor_cells' = <<>>
    /\ target' = NotCalled
    /\ last_step' = NoStep
    /\ UNCHANGED <<built, op_call, op_ret,
                   size, agents, next_id, result, ticks, after_alloc>>

\* world.rs:251
AllocateResources ==
    /\ pc = "allocate_resources"
    /\ LET w == allocate_resources(cells, agents)
       IN  /\ cells' = w.cells
           /\ agents' = w.agents
           /\ pc' = IF w.panic THEN "panicked" ELSE "step_all_agents"
           /\ result' = IF w.panic THEN "panic" ELSE result
           /\ after_alloc' = [cells |-> w.cells, agents |-> w.agents]
    /\ next_id' = 0
    /\ UNCHANGED <<built, op_call, op_ret,
                   size, ticks, neighbor_cells, target, tick_start,
                   after_regen, last_step>>

\* world.rs:239-241, one iteration
StepAgent ==
    /\ pc = "step_all_agents"
    /\ next_id < NumAgents(agents)
    /\ LET r == step_agent(size, [cells |-> cells, agents |-> agents,
                                  panic |-> FALSE], next_id)
       IN  /\ cells' = r.cells
           /\ agents' = r.agents
           /\ neighbor_cells' = r.neighbors
           /\ target' = [called |-> r.called, ret |-> r.target]
           /\ last_step' = r.obs
           /\ pc' = IF r.panic THEN "panicked" ELSE pc
           /\ result' = IF r.panic THEN "panic" ELSE result
    /\ next_id' = next_id + 1
    /\ UNCHANGED <<built, op_call, op_ret,
                   size, ticks, tick_start, after_regen, after_alloc>>

\* world.rs:254
ReturnOk ==
    /\ pc = "step_all_agents"
    /\ next_id >= NumAgents(agents)
    /\ result' = "Ok"
    /\ ticks' = ticks + 1
    /\ pc' = "cells_update"
    /\ UNCHANGED <<built, op_call, op_ret,
                   size, cells, agents, next_id, neighbor_cells, target,
                   tick_start, after_regen, after_alloc, last_step>>

Next == CellsUpdate \/ AllocateResources \/ StepAgent \/ ReturnOk

Spec == Init /\ [][Next]_vars

----------------------------------------------------------------------------
(* World::update on crowded worlds: a row or a column of three cells, some  *)
(* of them poor and without regeneration, and agents that start in the      *)
(* first two cells, so that agents share a cell next to a poorer one.       *)

CrowdGridSizes == {<<3, 1>>, <<1, 3>>}

\* <<cur_resource, regen_rate>> of a cell
CrowdCellValues == {<<0, 0>>, <<2, 0>>, <<6, 3>>}

CrowdStartCells == {0, 1}

InitCrowd ==
    /\ size \in CrowdGridSizes
    /\ \E v \in [0..(NumCells(size) - 1) -> CrowdCellValues] :
          cells = [i \in 0..(NumCells(size) - 1) |->
                      Cell_new(i, v[i][1], make_world_max_resource, v[i][2],
                               make_world_max_regen_rate)]
    /\ \E n \in 0..MaxAgents :
          \E c \in [0..(n - 1) -> CrowdStartCells],
             v \in [0..(n - 1) -> InitAgentValues] :
             agents = [i \in 0..(n - 1) |->
                          Agent_new(i, c[i], v[i][1], 0, v[i][2], TRUE)]
    /\ pc = "cells_update"
    /\ next_id = 0
    /\ result = "none"
    /\ ticks = 0
    /\ neighbor_cells = <<>>
    /\ target = NotCalled
    /\ tick_start = [cells |-> cells, agents |-> agents]
    /\ after_regen = cells
    /\ after_alloc = [cells |-> cells, agents |-> agents]
    /\ last_step = NoStep
    /\ built = agents
    /\ op_call = NoCall
    /\ op_ret = NoRet

CrowdSpec == InitCrowd /\ [][Next]_vars

----------------------------------------------------------------------------
(* World::update called again and again on a world without alive agents:    *)
(* one action is one whole call.  The host calls update() on every frame,   *)
(* which is the fairness condition.  ticks stops counting at MaxTicks.      *)

\* world.rs:237-242, from agent id on; w = [cells, agents, panic]
RECURSIVE step_all_agents(_, _, _)
step_all_agents(sz, w, id) ==
    IF w.panic \/ id \notin DOMAIN w.agents
    THEN w
    ELSE LET r == step_agent(sz, w, id)
         IN  step_all_agents(sz, [cells |-> r.cells, agents |-> r.agents,
                                  panic |-> r.panic], id + 1)

\* world.rs:246-255; returns [regen, alloc, end], the world after each of the
\* three parts of the call
World_update(sz, cs, ags) ==
    LET regen == [i \in DOMAIN cs |-> Cell_update(cs[i])]
        alloc == allocate_resources(regen, ags)
    IN  [regen |-> regen,
         alloc |-> alloc,
         end |-> IF alloc.panic THEN alloc ELSE step_all_agents(sz, alloc, 0)]

RegrowGridSizes == {<<2, 1>>}

\* <<cur_resource, regen_rate>> of a cell
RegrowCellValues == {<<0, 0>>, <<7, 0>>, <<0, 1>>, <<7, 3>>, <<20, 3>>}

\* how many dead agents lie in the world
RegrowDeadAgents == {0, 1}

\* <<consumption_rate, allocated_resource>> of a dead agent
RegrowDeadAgentValues == {<<5, 3>>}

InitRegrow ==
    /\ size \in RegrowGridSizes
    /\ \E v \in [0..(NumCells(size) - 1) -> RegrowCellValues] :
          cells = [i \in 0..(NumCells(size) - 1) |->
                      Cell_new(i, v[i][1], make_world_max_resource, v[i][2],
                               make_world_max_regen_rate)]
    /\ \E n \in RegrowDeadAgents :
          \E c \in [0..(n - 1) -> 0..(NumCells(size) - 1)],
             v \in [0..(n - 1) -> RegrowDeadAgentValues] :
             agents = [i \in 0..(n - 1) |->
                          Agent_new(i, c[i], v[i][1], v[i][2], 0, FALSE)]
    /\ pc = "cells_update"
    /\ next_id = 0
    /\ result = "none"
    /\ ticks = 0
    /\ neighbor_cells = <<>>
    /\ target = NotCalled
    /\ tick_start = [cells |-> cells, agents |-> agents]
    /\ after_regen = cells
    /\ after_alloc = [cells |-> cells, agents |-> agents]
    /\ last_step = NoStep
    /\ built = agents
    /\ op_call = NoCall
    /\ op_ret = NoRet

\* world.rs:246-255, the whole call
WorldUpdate ==
    /\ pc = "cells_update"
    /\ \E u \in {World_update(size, cells, agents)} :
           /\ cells' = u.end.cells
           /\ agents' = u.end.agents
           /\ after_regen' = u.regen
           /\ after_alloc' = [cells |-> u.alloc.cells, agents |-> u.alloc.agents]
           /\ pc' = IF u.end.panic THEN "panicked" ELSE pc
           /\ result' = IF u.end.panic THEN "panic" ELSE "Ok"
    /\ tick_start' = [cells |-> cells, agents |-> agents]
    /\ ticks' = IF ticks < MaxTicks THEN ticks + 1 ELSE ticks
    /\ next_id' = NumAgents(agents)
    /\ UNCHANGED <<size, neighbor_cells, target, last_step, built, op_call,
                   op_ret>>

NextRegrow == WorldUpdate

RegrowSpec == InitRegrow /\ [][NextRegrow]_vars /\ WF_vars(WorldUpdate)

----------------------------------------------------------------------------
(* Agent::decide_move on its own: the neighbor list is any list of at most *)
(* MaxNeighbors <<cell id, resource>> pairs.                               *)

NeighborIds == 1..3
NeighborResources == {0, 4, 9}

NeighborLists ==
    UNION {[1..n -> NeighborIds \X NeighborResources] : n \in 0..MaxNeighbors}

InitDecide ==
    /\ size = <<1, 1>>
    /\ cells = [i \in {0} |-> Cell_new(0, 0, make_world_max_resource, 0,
                                       make_world_max_regen_rate)]
    /\ agents = [i \in {0} |-> Agent_new(0, 0, 1, 0, 3, TRUE)]
    /\ pc = "decide_move"
    /\ next_id = 0
    /\ result = "none"
    /\ ticks = 0
    /\ neighbor_cells \in NeighborLists
    /\ target = NotCalled
    /\ tick_start = [cells |-> cells, agents |-> agents]
    /\ after_regen = cells
    /\ after_alloc = [cells |-> cells, agents |-> agents]
    /\ last_step = NoStep
    /\ built = agents
    /\ op_call = NoCall
    /\ op_ret = NoRet

DecideMove ==
    /\ pc = "decide_move"
    /\ target' = [called |-> TRUE,
                  ret |-> Agent_decide_move(neighbor_cells)]
    /\ pc' = "returned"
    /\ UNCHANGED <<built, op_call, op_ret,
                   size, cells, agents, next_id, result, ticks,
                   neighbor_cells, tick_start, after_regen, after_alloc,
                   last_step>>

NextDecide == DecideMove

DecideSpec == InitDecide /\ [][NextDecide]_vars

----------------------------------------------------------------------------
(* Agent's operations on their own: any agent Agent::new can build from the *)
(* values below, and any sequence of move_to, update and retrieve_resource  *)
(* calls on it.  tick_start holds the agent as it was before the last call. *)

CallCellIds == {0, 1}
CallConsumptionRates == {0, 3}
CallAllocated == {0, 3, 5}
CallHealthPoints == {0, 1, 2}
CallOffered == {0, 2, 3, 10}

InitAgent ==
    /\ size = <<2, 1>>
    /\ cells = [i \in {0, 1} |-> Cell_new(i, 0, make_world_max_resource, 0,
                                          make_world_max_regen_rate)]
    /\ \E cid \in CallCellIds, rate \in CallConsumptionRates,
          alloc \in CallAllocated, hp \in CallHealthPoints,
          alive \in BOOLEAN :
          agents = [i \in {0} |-> Agent_new(0, cid, rate, alloc, hp, alive)]
    /\ pc = "agent_call"
    /\ next_id = 0
    /\ result = "none"
    /\ ticks = 0
    /\ neighbor_cells = <<>>
    /\ target = NotCalled
    /\ tick_start = [cells |-> cells, agents |-> agents]
    /\ after_regen = cells
    /\ after_alloc = [cells |-> cells, agents |-> agents]
    /\ last_step = NoStep
    /\ built = agents
    /\ op_call = NoCall
    /\ op_ret = NoRet

AgentCallFrame ==
    /\ tick_start' = [cells |-> cells, agents |-> agents]
    /\ UNCHANGED <<size, cells, pc, next_id, result, ticks, neighbor_cells,
                   target, after_regen, after_alloc, last_step, built>>

\* agent.rs:94-101
CallMoveTo ==
    /\ pc = "agent_call"
    /\ \E new_id \in CallCellIds :
          LET r == Agent_move_to(agents[0], new_id)
          IN  /\ agents' = [agents EXCEPT ![0] = r.agent]
              /\ op_call' = [op |-> "move_to", arg |-> new_id]
              /\ op_ret' = [ok |-> r.ok]
    /\ AgentCallFrame

\* agent.rs:201-207
CallAgentUpdate ==
    /\ pc = "agent_call"
    /\ LET r == Agent_update(agents[0])
       IN  /\ agents' = [agents EXCEPT ![0] = r.agent]
           /\ op_call' = [op |-> "update", arg |-> <<>>]
           /\ op_ret' = [ok |-> r.ok]
    /\ AgentCallFrame

\* agent.rs:114-118, followed by is_hungry (agent.rs:178-180)
CallRetrieveResource ==
    /\ pc = "agent_call"
    /\ \E resource \in CallOffered :
          LET r == Agent_retrieve_resource(agents[0], resource)
          IN  /\ agents' = [agents EXCEPT ![0] = r.agent]
              /\ op_call' = [op |-> "retrieve_resource", arg |-> resource]
              /\ op_ret' = [leftover |-> r.leftover,
                            is_hungry |-> Agent_is_hungry(r.agent)]
    /\ AgentCallFrame

NextAgent == CallMoveTo \/ CallAgentUpdate \/ CallRetrieveResource

AgentSpec == InitAgent /\ [][NextAgent]_vars

----------------------------------------------------------------------------
(* Cell's operations on their own: one call on any cell Cell::new can build *)
(* from the values below with cur_resource <= max_resource and              *)
(* regen_rate <= max_regen_rate.  tick_start holds the cell before the call. *)

CallResources == {0, 5, 10, 90, WordMax - 1}
CallMaxResources == {100, WordMax}
CallRegenRates == {0, 1, 5, WordMax - 1}
CallMaxRegenRates == {5, WordMax}
CallAmounts == {0, 1, 4, 10, 20, WordMax}

InitCell ==
    /\ size = <<1, 1>>
    /\ \E cur \in CallResources, max \in CallMaxResources,
          regen \in CallRegenRates, max_regen \in CallMaxRegenRates :
          /\ cur <= max
          /\ regen <= max_regen
          /\ cells = [i \in {0} |-> Cell_new(0, cur, max, regen, max_regen)]
    /\ agents = <<>>
    /\ pc = "cell_call"
    /\ next_id = 0
    /\ result = "none"
    /\ ticks = 0
    /\ neighbor_cells = <<>>
    /\ target = NotCalled
    /\ tick_start = [cells |-> cells, agents |-> agents]
    /\ after_regen = cells
    /\ after_alloc = [cells |-> cells, agents |-> agents]
    /\ last_step = NoStep
    /\ built = agents
    /\ op_call = NoCall
    /\ op_ret = NoRet

CellCallFrame ==
    /\ pc' = "returned"
    /\ UNCHANGED <<size, agents, next_id, result, ticks, neighbor_cells,
                   target, tick_start, after_regen, after_alloc, last_step,
                   built>>

\* cell.rs:56-58
CallAddResource ==
    /\ pc = "cell_call"
    /\ \E resource \in CallAmounts :
          /\ cells' = [cells EXCEPT ![0] = Cell_add_resource(cells[0], resource)]
          /\ op_call' = [op |-> "add_resource", arg |-> resource]
          /\ op_ret' = NoRet
    /\ CellCallFrame

\* cell.rs:71-79
CallResourceConsumption ==
    /\ pc = "cell_call"
    /\ \E resource \in CallAmounts :
          LET r == Cell_resource_consumption(cells[0], resource)
          IN  /\ cells' = [cells EXCEPT ![0] = r.cell]
              /\ op_call' = [op |-> "resource_consumption", arg |-> resource]
              /\ op_ret' = [ok |-> r.ok, value |-> r.value]
    /\ CellCallFrame

\* cell.rs:92-96
CallTakeUpTo ==
    /\ pc = "cell_call"
    /\ \E want \in CallAmounts :
          LET r == Cell_take_up_to(cells[0], want)
          IN  /\ cells' = [cells EXCEPT ![0] = r.cell]
              /\ op_call' = [op |-> "take_up_to", arg |-> want]
              /\ op_ret' = [take |-> r.take]
    /\ CellCallFrame

\* cell.rs:105-107
CallIncreaseRate ==
    /\ pc = "cell_call"
    /\ \E regen_rate \in CallAmounts :
          /\ cells' = [cells EXCEPT ![0] =
                          Cell_increase_rate(cells[0], regen_rate)]
          /\ op_call' = [op |-> "increase_rate", arg |-> regen_rate]
          /\ op_ret' = NoRet
    /\ CellCallFrame

\* cell.rs:134-138
CallCellUpdate ==
    /\ pc = "cell_call"
    /\ cells' = [cells EXCEPT ![0] = Cell_update(cells[0])]
    /\ op_call' = [op |-> "cell_update", arg |-> <<>>]
    /\ op_ret' = [ok |-> TRUE]
    /\ CellCallFrame

NextCell ==
    \/ CallAddResource
    \/ CallResourceConsumption
    \/ CallTakeUpTo
    \/ CallIncreaseRate
    \/ CallCellUpdate

CellSpec == InitCell /\ [][NextCell]_vars

----------------------------------------------------------------------------
(* World::make_world (world.rs:48-88) on its own.  The random draws are     *)
(* sampled at the ends of their ranges.                                     *)

make_world_max_consumption_rate == 5
make_world_health_point == 3

GenDims == {0, 1, 2}
GenResources == {0, make_world_max_resource}
GenRegenRates == {0, make_world_max_regen_rate}
GenConsumptionRates == {1, make_world_max_consumption_rate}

\* the two assert! of world.rs:49-50 fail
make_world_panics(width, height, max_agents) ==
    ~(width > 0 /\ height > 0) \/ ~(max_agents > 0)

\* world.rs:58-72: the cell pushed at position k is the one of row
\* y = k div width and column x = k mod width
make_world_cells(width, height) ==
    {[k \in 0..(width * height - 1) |->
        LET y == k \div width
            x == k % width
        IN  Cell_new(y * width + x, v[k][1], make_world_max_resource,
                     v[k][2], make_world_max_regen_rate)] :
     v \in [0..(width * height - 1) -> GenResources \X GenRegenRates]}

\* as make_world_agents, but the cell id is computed with height for width
make_world_agents_swapped(width, height, max_agents) ==
    UNION {
        {[id \in 0..(num_agents - 1) |->
            Agent_new(id, r[id][2] * height + r[id][1], r[id][3], 0,
                      make_world_health_point, TRUE)] :
         r \in [0..(num_agents - 1) ->
                    (0..(width - 1)) \X (0..(height - 1))
                        \X GenConsumptionRates]} :
        num_agents \in 1..max_agents}

\* world.rs:74-85: r[id] = <<rand_x, rand_y, rand_consumption_rate>>
make_world_agents(width, height, max_agents) ==
    UNION {
        {[id \in 0..(num_agents - 1) |->
            Agent_new(id, r[id][2] * width + r[id][1], r[id][3], 0,
                      make_world_health_point, TRUE)] :
         r \in [0..(num_agents - 1) ->
                    (0..(width - 1)) \X (0..(height - 1))
                        \X GenConsumptionRates]} :
        num_agents \in 1..max_agents}

InitGen ==
    /\ size = <<0, 0>>
    /\ cells = <<>>
    /\ agents = <<>>
    /\ pc = "make_world"
    /\ next_id = 0
    /\ result = "none"
    /\ ticks = 0
    /\ neighbor_cells = <<>>
    /\ target = NotCalled
    /\ tick_start = [cells |-> cells, agents |-> agents]
    /\ after_regen = cells
    /\ after_alloc = [cells |-> cells, agents |-> agents]
    /\ last_step = NoStep
    /\ built = agents
    /\ op_call = NoCall
    /\ op_ret = NoRet

GenFrame ==
    UNCHANGED <<next_id, ticks, neighbor_cells, target, tick_start,
                after_regen, after_alloc, last_step>>

\* world.rs:49-50, an assert! fails
MakeWorldPanics ==
    /\ pc = "make_world"
    /\ \E width \in GenDims, height \in GenDims, max_agents \in 0..MaxAgents :
          /\ make_world_panics(width, height, max_agents)
          /\ op_call' = [op |-> "make_world",
                         arg |-> <<width, height, max_agents>>]
    /\ pc' = "panicked"
    /\ result' = "panic"
    /\ op_ret' = NoRet
    /\ UNCHANGED <<size, cells, agents, built>>
    /\ GenFrame

\* world.rs:52-87
MakeWorld ==
    /\ pc = "make_world"
    /\ \E width \in GenDims, height \in GenDims, max_agents \in 0..MaxAgents :
          /\ ~make_world_panics(width, height, max_agents)
          /\ size' = <<width, height>>
          /\ cells' \in make_world_cells(width, height)
          /\ agents' \in make_world_agents(width, height, max_agents)
          /\ op_call' = [op |-> "make_world",
                         arg |-> <<width, height, max_agents>>]
          /\ op_ret' = [max_agents |-> max_agents]
    /\ built' = agents'
    /\ pc' = "returned"
    /\ result' = "Ok"
    /\ GenFrame

NextGen == MakeWorldPanics \/ MakeWorld

GenSpec == InitGen /\ [][NextGen]_vars

----------------------------------------------------------------------------
(* Properties *)

\* the state right after allocate_resources returned, before any agent step
AfterAllocation == pc = "step_all_agents" /\ next_id = 0

\* the state between two update() calls, at least one of them made
BetweenTicks == pc = "cells_update" /\ ticks >= 1

Stepped == last_step.acted

\* the cell the agent of the last step is recorded in
StepCell == cells[agents[last_step.id].cid]

\* sum of allocated_resource over the alive agents i, i+1, ... resident in cid
RECURSIVE SumAllocated(_, _, _)
SumAllocated(ags, cid, i) ==
    IF i \notin DOMAIN ags THEN 0
    ELSE (IF ags[i].alive /\ ags[i].cid = cid
          THEN ags[i].allocated_resource ELSE 0)
         + SumAllocated(ags, cid, i + 1)

AliveResidents(ags, cid) == {i \in DOMAIN ags : ags[i].alive /\ ags[i].cid = cid}

\* C1: at every point of every tick, every cell has
\* 0 <= cur_resource <= max_resource and 0 <= regen_rate <= max_regen_rate.
C1_CellBounds ==
    \A c \in DOMAIN cells :
        /\ 0 <= cells[c].cur_resource
        /\ cells[c].cur_resource <= cells[c].max_resource
        /\ 0 <= cells[c].regen_rate
        /\ cells[c].regen_rate <= cells[c].max_regen_rate

\* an agent has just died in a cell that the corpse bonus filled to both caps,
\* from a resource less than corpse_resource below max_resource
C1_Witness ==
    /\ Stepped /\ last_step.died # "no"
    /\ StepCell.cur_resource = StepCell.max_resource
    /\ StepCell.regen_rate = StepCell.max_regen_rate
    /\ after_alloc.cells[StepCell.id].cur_resource + 5 > StepCell.max_resource

\* C2: a dead agent's cid, health_point and allocated_resource are the same
\* after every step of every tick as before it.
C2_DeadAgentsFrozen ==
    [][\A i \in DOMAIN agents :
          ~agents[i].alive =>
              /\ agents'[i].cid = agents[i].cid
              /\ agents'[i].health_point = agents[i].health_point
              /\ agents'[i].allocated_resource = agents[i].allocated_resource
              /\ ~agents'[i].alive]_vars

\* allocation has just served an alive agent in a cell where an agent that
\* died in an earlier tick lies
C2_Witness ==
    /\ AfterAllocation
    /\ \E i, j \in DOMAIN agents :
          /\ ~tick_start.agents[i].alive /\ ~agents[i].alive
          /\ agents[j].alive /\ agents[j].cid = agents[i].cid
          /\ agents[j].allocated_resource > 0

\* C3: right after allocation, every cell has lost exactly the sum of the
\* allocated_resource of its alive residents.
C3_AllocationConservation ==
    AfterAllocation =>
        \A c \in DOMAIN cells :
            after_regen[c].cur_resource - cells[c].cur_resource
                = SumAllocated(agents, c, 0)

\* a cell served two residents with a division remainder, one of them needing
\* less than its share, and keeps resource
C3_Witness ==
    /\ AfterAllocation
    /\ \E c \in DOMAIN cells :
          LET n == Cardinality(AliveResidents(agents, c))
              total == after_regen[c].cur_resource
          IN  /\ n >= 2
              /\ total % n # 0
              /\ \E i \in AliveResidents(agents, c) :
                    agents[i].allocated_resource < total \div n
              /\ cells[c].cur_resource > 0
              /\ cells[c].cur_resource < total

\* C4: a step in which an agent goes from alive to dead adds
\* min(5, max_resource - cur_resource) to the resource and
\* min(1, max_regen_rate - regen_rate) to the regen rate of the cell the
\* agent is recorded in after the step.
C4_DeathRecycling ==
    [][\A i \in DOMAIN agents :
          (agents[i].alive /\ ~agents'[i].alive) =>
              LET c == agents'[i].cid
              IN  /\ cells'[c].cur_resource = cells[c].cur_resource
                        + Min(5, cells[c].max_resource - cells[c].cur_resource)
                  /\ cells'[c].regen_rate = cells[c].regen_rate
                        + Min(1, cells[c].max_regen_rate - cells[c].regen_rate)
      ]_vars

\* an agent has just died from the movement cost in a cell other than the one
\* it started the tick in, and that cell took the whole corpse resource
C4_Witness ==
    /\ Stepped /\ last_step.died = "move"
    /\ agents[last_step.id].cid # tick_start.agents[last_step.id].cid
    /\ StepCell.cur_resource = after_alloc.cells[StepCell.id].cur_resource + 5
    /\ StepCell.cur_resource < StepCell.max_resource

\* C5: before allocation every cell has regenerated and no agent has changed;
\* right after allocation no agent has moved, lost health or died; during the
\* agent steps no cell loses resource and no agent's allocated_resource takes a
\* value other than the allocation it got before moving, or 0.
C5_TickOrder ==
    /\ pc = "allocate_resources" =>
          /\ agents = tick_start.agents
          /\ \A c \in DOMAIN cells :
                cells[c] = [tick_start.cells[c] EXCEPT !.cur_resource =
                    Min(tick_start.cells[c].cur_resource
                            + tick_start.cells[c].regen_rate,
                        tick_start.cells[c].max_resource)]
    /\ AfterAllocation =>
          /\ \A i \in DOMAIN agents :
                agents[i] = [tick_start.agents[i] EXCEPT
                    !.allocated_resource = agents[i].allocated_resource]
          /\ \A c \in DOMAIN cells :
                /\ cells[c].regen_rate = tick_start.cells[c].regen_rate
                /\ cells[c].cur_resource <= after_regen[c].cur_resource
    /\ pc = "step_all_agents" =>
          /\ \A c \in DOMAIN cells :
                cells[c].cur_resource >= after_alloc.cells[c].cur_resource
          /\ \A i \in DOMAIN agents :
                agents[i].allocated_resource
                    \in {0, after_alloc.agents[i].allocated_resource}

\* a hungry agent has moved to a cell holding resource and survived the step
C5_Witness ==
    /\ Stepped /\ last_step.moved /\ last_step.died = "no"
    /\ agents[last_step.id].cid # tick_start.agents[last_step.id].cid
    /\ StepCell.cur_resource > 0
    /\ StepCell.cur_resource = after_alloc.cells[StepCell.id].cur_resource

\* the greatest resource value of a non-empty neighbor list
MaxResource(neighbors) ==
    CHOOSE m \in {neighbors[k][2] : k \in DOMAIN neighbors} :
        \A k \in DOMAIN neighbors : neighbors[k][2] <= m

\* the positions of the neighbors holding the greatest resource value
Maxima(neighbors) ==
    {k \in DOMAIN neighbors : neighbors[k][2] = MaxResource(neighbors)}

FirstOf(S) == CHOOSE k \in S : \A j \in S : k <= j
LastOf(S) == CHOOSE k \in S : \A j \in S : k >= j

\* decide_move was given a list in which several neighbors share the greatest
\* resource value, and that value is > 0
TiedMaximum ==
    /\ target.called
    /\ neighbor_cells # <<>>
    /\ MaxResource(neighbor_cells) > 0
    /\ Cardinality(Maxima(neighbor_cells)) >= 2

\* C6 as stated: of several neighbors sharing the greatest resource value > 0,
\* decide_move returns the first in the supplied list.
C6_FirstMaximumWins ==
    TiedMaximum =>
        target.ret = Some(neighbor_cells[FirstOf(Maxima(neighbor_cells))][1])

\* C6 as amended: of several neighbors sharing the greatest resource value > 0,
\* decide_move returns the last in the supplied list.
C6_LastMaximumWins ==
    TiedMaximum =>
        target.ret = Some(neighbor_cells[LastOf(Maxima(neighbor_cells))][1])

\* decide_move returned for a list whose first and last maximum are different
\* cells
C6_Witness ==
    /\ TiedMaximum
    /\ neighbor_cells[FirstOf(Maxima(neighbor_cells))][1]
          # neighbor_cells[LastOf(Maxima(neighbor_cells))][1]
    /\ target.ret # None

\* C7: decide_move returns None exactly when the list is empty or every
\* resource in it is 0, and otherwise the id of a supplied neighbor whose
\* resource is the greatest of the list.
C7_DecideMoveResult ==
    target.called =>
        /\ target.ret = None <=>
              (\/ neighbor_cells = <<>>
               \/ \A k \in DOMAIN neighbor_cells : neighbor_cells[k][2] = 0)
        /\ target.ret # None =>
              \E k \in Maxima(neighbor_cells) :
                  target.ret = Some(neighbor_cells[k][1])

\* decide_move chose among neighbors of which some hold nothing and some
\* hold less than the greatest value
C7_Witness ==
    /\ target.called
    /\ target.ret # None
    /\ \E k \in DOMAIN neighbor_cells : neighbor_cells[k][2] = 0
    /\ \E k \in DOMAIN neighbor_cells :
          /\ neighbor_cells[k][2] > 0
          /\ neighbor_cells[k][2] < MaxResource(neighbor_cells)

\* C8: no update() call panics (an index out of range, an arithmetic
\* overflow), and every completed call returned Ok.
C8_UpdateAlwaysOk ==
    /\ pc # "panicked"
    /\ result \in {"none", "Ok"}
    /\ ticks >= 1 => result = "Ok"

\* an update() call returned Ok on a world that held a dead and an alive
\* agent when the call began
C8_Witness ==
    /\ BetweenTicks /\ result = "Ok"
    /\ \E i, j \in DOMAIN agents :
          /\ ~tick_start.agents[i].alive
          /\ tick_start.agents[j].alive

\* C9: on a world without agents, an update() call returns Ok, leaves the
\* agent collection empty and every cell field but cur_resource as it was, and
\* sets every cur_resource to min(cur_resource + regen_rate, max_resource).
C9_NoAgentsOnlyRegen ==
    (BetweenTicks /\ DOMAIN tick_start.agents = {}) =>
        /\ result = "Ok"
        /\ agents = tick_start.agents
        /\ DOMAIN cells = DOMAIN tick_start.cells
        /\ \A c \in DOMAIN cells :
              LET old == tick_start.cells[c]
              IN  /\ cells[c] = [old EXCEPT !.cur_resource =
                        Min(old.cur_resource + old.regen_rate,
                            old.max_resource)]
                  /\ cells[c].cur_resource >= old.cur_resource

\* an update() call on a world without agents raised one cell by its regen
\* rate and another only up to max_resource
C9_Witness ==
    /\ BetweenTicks /\ DOMAIN tick_start.agents = {}
    /\ \E c, d \in DOMAIN cells :
          /\ tick_start.cells[c].regen_rate > 0
          /\ cells[c].cur_resource
                = tick_start.cells[c].cur_resource
                    + tick_start.cells[c].regen_rate
          /\ cells[d].cur_resource = cells[d].max_resource
          /\ tick_start.cells[d].cur_resource + tick_start.cells[d].regen_rate
                > cells[d].max_resource

\* C10: every agent's cid, alive or dead, is a cell id in 0..width*height-1,
\* and the cells are exactly the cells 0..width*height-1.
C10_ValidCids ==
    /\ DOMAIN cells = 0..(size[1] * size[2] - 1)
    /\ Cardinality(DOMAIN cells) = size[1] * size[2]
    /\ \A i \in DOMAIN agents :
          agents[i].cid \in 0..(size[1] * size[2] - 1)

\* after a completed tick an alive and a dead agent both lie in cells they did
\* not start the run in
C10_Witness ==
    /\ BetweenTicks
    /\ \E i, j \in DOMAIN agents :
          /\ agents[i].alive /\ agents[i].cid \notin StartCells(size)
          /\ ~agents[j].alive /\ agents[j].cid \notin StartCells(size)

\* C11: no agent's health_point exceeds the value it was constructed with,
\* the value it had when the current tick began, or (during the agent steps)
\* the value it had after allocation; it is never below 0.
C11_HealthNeverIncreases ==
    \A i \in DOMAIN agents :
        /\ 0 <= agents[i].health_point
        /\ agents[i].health_point <= built[i].health_point
        /\ agents[i].health_point <= tick_start.agents[i].health_point
        /\ pc = "step_all_agents" =>
              agents[i].health_point <= after_alloc.agents[i].health_point

\* after a tick a weakened agent lives in the cell where another agent died
\* in that tick
C11_Witness ==
    /\ BetweenTicks
    /\ \E i, j \in DOMAIN agents :
          /\ agents[i].alive
          /\ agents[i].health_point < built[i].health_point
          /\ tick_start.agents[j].alive /\ ~agents[j].alive
          /\ agents[j].cid = agents[i].cid

\* C12 as stated: at the end of a tick every agent that was alive when the
\* tick began has allocated_resource = 0.
C12_AllocatedResetEveryTick ==
    BetweenTicks =>
        \A i \in DOMAIN agents :
            tick_start.agents[i].alive => agents[i].allocated_resource = 0

\* C12 as amended: a step of an alive agent leaves allocated_resource = 0
\* unless the movement cost killed the agent, and then it leaves the
\* allocation of this tick; at the end of a tick every agent that was alive
\* when the tick began has allocated_resource = 0 or is dead in a cell it
\* moved to in this tick.
C12_AllocatedResetUnlessKilledByMove ==
    /\ (Stepped /\ last_step.died = "move") =>
          agents[last_step.id].allocated_resource
              = after_alloc.agents[last_step.id].allocated_resource
    /\ (Stepped /\ last_step.died # "move") =>
          agents[last_step.id].allocated_resource = 0
    /\ BetweenTicks =>
          \A i \in DOMAIN agents :
              tick_start.agents[i].alive =>
                  \/ agents[i].allocated_resource = 0
                  \/ /\ ~agents[i].alive
                     /\ agents[i].cid # tick_start.agents[i].cid

\* a tick ended in which the movement cost killed an agent holding an
\* allocation and another agent's allocation was reset
C12_Witness ==
    /\ BetweenTicks
    /\ \E i, j \in DOMAIN agents :
          /\ tick_start.agents[i].alive /\ ~agents[i].alive
          /\ agents[i].allocated_resource > 0
          /\ after_alloc.agents[j].allocated_resource > 0
          /\ agents[j].allocated_resource = 0

\* sum of min(share, consumption_rate) over the alive agents i, i+1, ... in cid
RECURSIVE SumShares(_, _, _, _)
SumShares(ags, cid, share, i) ==
    IF i \notin DOMAIN ags THEN 0
    ELSE (IF ags[i].alive /\ ags[i].cid = cid
          THEN Min(share, ags[i].consumption_rate) ELSE 0)
         + SumShares(ags, cid, share, i + 1)

\* C13: right after allocation, in a cell that held total > 0 after
\* regeneration and has n >= 1 alive residents, every resident has
\* allocated_resource = min(total div n, consumption_rate) and the cell holds
\* total minus the sum of these.
C13_BaseShare ==
    AfterAllocation =>
        \A c \in DOMAIN cells :
            LET total == after_regen[c].cur_resource
                n == Cardinality(AliveResidents(agents, c))
            IN  (total > 0 /\ n >= 1) =>
                    /\ \A i \in AliveResidents(agents, c) :
                          agents[i].allocated_resource
                              = Min(total \div n, agents[i].consumption_rate)
                    /\ cells[c].cur_resource
                          = total - SumShares(agents, c, total \div n, 0)

\* two residents that both need more than their share each got the share
C13_Witness ==
    /\ AfterAllocation
    /\ \E c \in DOMAIN cells :
          LET total == after_regen[c].cur_resource
          IN  /\ Cardinality(AliveResidents(agents, c)) = 2
              /\ total >= 2
              /\ \A i \in AliveResidents(agents, c) :
                    /\ agents[i].consumption_rate > total \div 2
                    /\ agents[i].allocated_resource = total \div 2
              /\ cells[c].cur_resource = total - 2 * (total \div 2)

\* the agent before and after the last call made on it
AgentBefore == tick_start.agents[0]
AgentAfter == agents[0]

\* C14: move_to on a dead agent returns NotAlive and changes nothing; on an
\* alive agent it returns Ok, sets cid to the argument, lowers health_point by
\* 1 saturating at 0, leaves allocated_resource (and id, consumption_rate)
\* alone, and leaves the agent alive exactly when the new health_point is not 0.
C14_MoveTo ==
    op_call.op = "move_to" =>
        IF ~AgentBefore.alive
        THEN ~op_ret.ok /\ AgentAfter = AgentBefore
        ELSE /\ op_ret.ok
             /\ AgentAfter.cid = op_call.arg
             /\ AgentAfter.health_point =
                    (IF AgentBefore.health_point >= 1
                     THEN AgentBefore.health_point - 1 ELSE 0)
             /\ AgentAfter.allocated_resource = AgentBefore.allocated_resource
             /\ AgentAfter.alive <=> AgentAfter.health_point # 0
             /\ AgentAfter.id = AgentBefore.id
             /\ AgentAfter.consumption_rate = AgentBefore.consumption_rate

\* move_to took the last health point of an alive agent that held an
\* allocation and put it in another cell
C14_Witness ==
    /\ op_call.op = "move_to"
    /\ AgentBefore.alive /\ AgentBefore.health_point = 1
    /\ AgentBefore.allocated_resource > 0
    /\ AgentAfter.cid # AgentBefore.cid
    /\ ~AgentAfter.alive

\* C15: update on a dead agent returns NotAlive and changes nothing; on an
\* alive agent it returns Ok, lowers health_point by 1 saturating at 0 iff
\* allocated_resource < consumption_rate, sets allocated_resource to 0, leaves
\* cid alone, and leaves the agent alive exactly when the new health_point is
\* not 0.
C15_AgentUpdate ==
    op_call.op = "update" =>
        IF ~AgentBefore.alive
        THEN ~op_ret.ok /\ AgentAfter = AgentBefore
        ELSE /\ op_ret.ok
             /\ AgentAfter.health_point =
                    (IF AgentBefore.allocated_resource
                            < AgentBefore.consumption_rate
                     THEN (IF AgentBefore.health_point >= 1
                           THEN AgentBefore.health_point - 1 ELSE 0)
                     ELSE AgentBefore.health_point)
             /\ AgentAfter.allocated_resource = 0
             /\ AgentAfter.cid = AgentBefore.cid
             /\ AgentAfter.alive <=> AgentAfter.health_point # 0
             /\ AgentAfter.id = AgentBefore.id
             /\ AgentAfter.consumption_rate = AgentBefore.consumption_rate

\* the agent with rate 3, allocation 0 and 1 health point was updated
C15_Witness ==
    /\ op_call.op = "update"
    /\ AgentBefore.alive /\ AgentBefore.health_point = 1
    /\ AgentBefore.consumption_rate = 3
    /\ AgentBefore.allocated_resource = 0
    /\ AgentAfter.health_point = 0 /\ ~AgentAfter.alive

\* C16: retrieve_resource(offered) sets allocated_resource to
\* min(offered, consumption_rate) whatever it was, returns the rest of offered,
\* changes no other field, and is_hungry() is then true iff
\* offered < consumption_rate.
C16_RetrieveResource ==
    op_call.op = "retrieve_resource" =>
        LET take == Min(op_call.arg, AgentBefore.consumption_rate)
        IN  /\ AgentAfter.allocated_resource = take
            /\ op_ret.leftover = op_call.arg - take
            /\ AgentAfter.allocated_resource + op_ret.leftover = op_call.arg
            /\ AgentAfter = [AgentBefore EXCEPT !.allocated_resource = take]
            /\ op_ret.is_hungry <=> op_call.arg < AgentBefore.consumption_rate

\* an agent holding an allocation was offered more than it needs
C16_Witness ==
    /\ op_call.op = "retrieve_resource"
    /\ AgentBefore.allocated_resource > 0
    /\ AgentBefore.consumption_rate > 0
    /\ op_call.arg > AgentBefore.consumption_rate
    /\ op_ret.leftover > 0
    /\ AgentAfter.allocated_resource # AgentBefore.allocated_resource

\* the cell before and after the call made on it
CellBefore == tick_start.cells[0]
CellAfter == cells[0]

\* C17: take_up_to(want) on a cell holding R returns min(want, R), leaves
\* R minus what it returned, and changes no other field.
C17_TakeUpTo ==
    op_call.op = "take_up_to" =>
        /\ op_ret.take = Min(op_call.arg, CellBefore.cur_resource)
        /\ CellAfter = [CellBefore EXCEPT !.cur_resource =
                            CellBefore.cur_resource - op_ret.take]
        /\ CellAfter.cur_resource >= 0

\* take_up_to was asked for more than a non-empty cell holds
C17_Witness ==
    /\ op_call.op = "take_up_to"
    /\ CellBefore.cur_resource > 0
    /\ op_call.arg > CellBefore.cur_resource
    /\ op_ret.take = CellBefore.cur_resource
    /\ CellAfter.cur_resource = 0

\* C18: resource_consumption(amount) on a cell holding less than amount
\* returns the error carrying the cell's cur_resource and changes nothing;
\* otherwise it returns Ok(amount) and lowers cur_resource by amount.
C18_ResourceConsumption ==
    op_call.op = "resource_consumption" =>
        IF CellBefore.cur_resource < op_call.arg
        THEN /\ ~op_ret.ok
             /\ op_ret.value = CellBefore.cur_resource
             /\ CellAfter = CellBefore
        ELSE /\ op_ret.ok
             /\ op_ret.value = op_call.arg
             /\ CellAfter = [CellBefore EXCEPT !.cur_resource =
                                CellBefore.cur_resource - op_call.arg]

\* resource_consumption was asked for exactly what a non-empty cell holds
C18_Witness ==
    /\ op_call.op = "resource_consumption"
    /\ CellBefore.cur_resource > 0
    /\ op_call.arg = CellBefore.cur_resource
    /\ op_ret.ok
    /\ CellAfter.cur_resource = 0

\* C19: add_resource(amount) leaves cur_resource = min(cur_resource + amount,
\* max_resource), increase_rate(delta) leaves regen_rate =
\* min(regen_rate + delta, max_regen_rate) and Cell::update leaves
\* cur_resource = min(cur_resource + regen_rate, max_resource), the sums taken
\* over the integers, also when they exceed the greatest word value; no other
\* field changes.
C19_SaturatingCellArithmetic ==
    /\ op_call.op = "add_resource" =>
          CellAfter = [CellBefore EXCEPT !.cur_resource =
              IF CellBefore.cur_resource + op_call.arg
                    < CellBefore.max_resource
              THEN CellBefore.cur_resource + op_call.arg
              ELSE CellBefore.max_resource]
    /\ op_call.op = "increase_rate" =>
          CellAfter = [CellBefore EXCEPT !.regen_rate =
              IF CellBefore.regen_rate + op_call.arg
                    < CellBefore.max_regen_rate
              THEN CellBefore.regen_rate + op_call.arg
              ELSE CellBefore.max_regen_rate]
    /\ op_call.op = "cell_update" =>
          CellAfter = [CellBefore EXCEPT !.cur_resource =
              IF CellBefore.cur_resource + CellBefore.regen_rate
                    < CellBefore.max_resource
              THEN CellBefore.cur_resource + CellBefore.regen_rate
              ELSE CellBefore.max_resource]

\* add_resource was given an amount whose sum with cur_resource exceeds the
\* greatest word value, on a cell whose max_resource is that value
C19_Witness ==
    /\ op_call.op = "add_resource"
    /\ CellBefore.cur_resource > 0
    /\ CellBefore.cur_resource + op_call.arg > WordMax
    /\ CellAfter.cur_resource = CellBefore.max_resource
    /\ CellBefore.max_resource = WordMax

\* C20: make_world(width, height, max_agents) with a zero argument produces
\* no world; otherwise the world has the cells 0..width*height-1, the cell at
\* index i with id i, cur_resource <= max_resource and
\* regen_rate <= max_regen_rate, and between 1 and max_agents agents with ids
\* 0..n-1 in order, each with cid < width*height, allocated_resource 0,
\* health_point 3 and alive.
C20_MakeWorld ==
    op_call.op = "make_world" =>
        LET width == op_call.arg[1]
            height == op_call.arg[2]
            max_agents == op_call.arg[3]
            n == Cardinality(DOMAIN agents)
        IN  IF width = 0 \/ height = 0 \/ max_agents = 0
            THEN /\ result = "panic"
                 /\ DOMAIN cells = {}
                 /\ DOMAIN agents = {}
            ELSE /\ result = "Ok"
                 /\ size = <<width, height>>
                 /\ DOMAIN cells = 0..(width * height - 1)
                 /\ \A i \in DOMAIN cells :
                       /\ cells[i].id = i
                       /\ cells[i].cur_resource <= cells[i].max_resource
                       /\ cells[i].regen_rate <= cells[i].max_regen_rate
                 /\ 1 <= n /\ n <= max_agents
                 /\ DOMAIN agents = 0..(n - 1)
                 /\ \A i \in DOMAIN agents :
                       /\ agents[i].id = i
                       /\ agents[i].cid \in 0..(width * height - 1)
                       /\ agents[i].allocated_resource = 0
                       /\ agents[i].health_point = 3
                       /\ agents[i].alive

\* a world one cell wide and two cells high was generated with two agents,
\* one of them in the last cell
C20_Witness ==
    /\ op_call.op = "make_world"
    /\ size = <<1, 2>>
    /\ Cardinality(DOMAIN agents) = 2
    /\ \E i \in DOMAIN agents : agents[i].cid = 1
    /\ \E i \in DOMAIN agents : agents[i].cid = 0

\* C21: right after allocation, every cell without an alive resident and
\* every cell that held 0 after regeneration is as regeneration left it, the
\* residents of a cell that held 0 were given nothing, no dead agent has
\* changed, and the share of an alive resident is computed from the number of
\* alive residents alone.
C21_AllocationSkips ==
    AfterAllocation =>
        /\ \A c \in DOMAIN cells :
              (AliveResidents(agents, c) = {} \/ after_regen[c].cur_resource = 0)
                  => /\ cells[c] = after_regen[c]
                     /\ \A i \in AliveResidents(agents, c) :
                           agents[i] = tick_start.agents[i]
        /\ \A i \in DOMAIN agents :
              ~tick_start.agents[i].alive => agents[i] = tick_start.agents[i]
        /\ \A i \in DOMAIN agents :
              LET c == agents[i].cid
                  total == after_regen[c].cur_resource
                  n == Cardinality({j \in DOMAIN agents :
                          tick_start.agents[j].alive
                              /\ tick_start.agents[j].cid = c})
              IN  (agents[i].alive /\ total > 0) =>
                      agents[i].allocated_resource
                          = Min(total \div n, agents[i].consumption_rate)

\* allocation served an alive agent more than half of a cell in which a dead
\* agent lies, and passed over a cell holding resource but no alive resident
C21_Witness ==
    /\ AfterAllocation
    /\ \E i, j \in DOMAIN agents :
          /\ ~agents[i].alive /\ agents[j].alive
          /\ agents[i].cid = agents[j].cid
          /\ agents[j].allocated_resource
                > after_regen[agents[j].cid].cur_resource \div 2
          /\ agents[j].allocated_resource < agents[j].consumption_rate
    /\ \E c \in DOMAIN cells :
          /\ AliveResidents(agents, c) = {}
          /\ cells[c].cur_resource > 0

\* column and row of a cell id on a grid of the given size
XOf(sz, cid) == cid % sz[1]
YOf(sz, cid) == cid \div sz[1]

Abs(n) == IF n < 0 THEN -n ELSE n

\* Manhattan distance between two cells of the grid
Manhattan(sz, c, d) ==
    Abs(XOf(sz, c) - XOf(sz, d)) + Abs(YOf(sz, c) - YOf(sz, d))

\* the cells of the grid at Manhattan distance 1 of cid
Orthogonal(sz, cid) ==
    {d \in 0..(NumCells(sz) - 1) : Manhattan(sz, cid, d) = 1}

\* the agent whose step comes next, if a step comes next
StepNext(i) == pc = "step_all_agents" /\ i = next_id

\* C22: a step changes the cid of an agent iff it is the step of that agent,
\* the agent is alive and hungry (allocated_resource < consumption_rate) and
\* some orthogonal neighbor of its cell inside the grid holds resource at that
\* moment; the agent then stands in a neighbor holding the greatest resource
\* of all its neighbors, whatever its own cell holds.
C22_MovesIffHungryAndFood ==
    [][\A i \in DOMAIN agents :
          LET a == agents[i]
              near == Orthogonal(size, a.cid)
          IN  /\ agents'[i].cid # a.cid <=>
                    /\ StepNext(i)
                    /\ a.alive
                    /\ a.allocated_resource < a.consumption_rate
                    /\ \E d \in near : cells[d].cur_resource > 0
              /\ agents'[i].cid # a.cid =>
                    /\ agents'[i].cid \in near
                    /\ \A d \in near :
                          cells[d].cur_resource
                              <= cells[agents'[i].cid].cur_resource
      ]_vars

\* a hungry agent has left a cell that holds more than the neighbor it moved
\* to held when it decided
C22_Witness ==
    /\ Stepped /\ last_step.moved
    /\ LET i == last_step.id
           old == after_alloc.agents[i].cid
       IN  /\ agents[i].cid # old
           /\ \E k \in DOMAIN neighbor_cells :
                 /\ neighbor_cells[k][1] = agents[i].cid
                 /\ neighbor_cells[k][2] < cells[old].cur_resource

\* whether column x and row y lie on the grid
OnGrid(sz, x, y) == 0 <= x /\ x < sz[1] /\ 0 <= y /\ y < sz[2]

\* the cells above, below, left and right of cid, in that order, that lie on
\* the grid
FourNeighbors(sz, cid) ==
    LET x == XOf(sz, cid)
        y == YOf(sz, cid)
        around == <<<<x, y - 1>>, <<x, y + 1>>, <<x - 1, y>>, <<x + 1, y>>>>
        onGrid(p) == OnGrid(sz, p[1], p[2])
        kept == SelectSeq(around, onGrid)
    IN  [k \in DOMAIN kept |-> kept[k][2] * sz[1] + kept[k][1]]

\* C23: the neighbor list handed to decide_move for an agent in cell (x, y)
\* names exactly the cells (x, y-1), (x, y+1), (x-1, y), (x+1, y) that lie on
\* the grid, in that order, which are the cells at Manhattan distance 1; and at
\* every point of a tick every agent is at Manhattan distance 0 or 1 of the
\* cell it began the tick in.
C23_NeighborSnapshot ==
    /\ (Stepped /\ target.called) =>
          LET c == after_alloc.agents[last_step.id].cid
              ids == [k \in DOMAIN neighbor_cells |-> neighbor_cells[k][1]]
          IN  /\ ids = FourNeighbors(size, c)
              /\ {ids[k] : k \in DOMAIN ids} = Orthogonal(size, c)
              /\ Len(ids) = Cardinality(Orthogonal(size, c))
    /\ \A i \in DOMAIN agents :
          Manhattan(size, tick_start.agents[i].cid, agents[i].cid) <= 1

\* a hungry agent in the last column of a grid with a row below has moved,
\* while the cell whose id follows its own, the first of the next row, held
\* more than every neighbor in its list
C23_Witness ==
    /\ Stepped /\ target.called /\ last_step.moved
    /\ LET c == after_alloc.agents[last_step.id].cid
       IN  /\ XOf(size, c) = size[1] - 1
           /\ c + 1 \in DOMAIN cells
           /\ \A k \in DOMAIN neighbor_cells :
                 /\ neighbor_cells[k][1] # c + 1
                 /\ neighbor_cells[k][2] < after_alloc.cells[c + 1].cur_resource
           /\ agents[last_step.id].cid # c + 1

\* C24: when a tick has ended, every agent that began it alive with health
\* h >= 1 has lost 0 health if its allocation of this tick equals its
\* consumption_rate, 1 if it was hungry and did not move, and min(h, 2) if it
\* was hungry and moved.
C24_HealthDelta ==
    BetweenTicks =>
        \A i \in DOMAIN agents :
            LET before == tick_start.agents[i]
                h == before.health_point
                fed == after_alloc.agents[i].allocated_resource
                lost == h - agents[i].health_point
                moved == agents[i].cid # before.cid
            IN  (before.alive /\ h >= 1) =>
                    /\ fed <= before.consumption_rate
                    /\ fed = before.consumption_rate => lost = 0 /\ ~moved
                    /\ (fed < before.consumption_rate /\ ~moved) => lost = 1
                    /\ (fed < before.consumption_rate /\ moved) =>
                          lost = Min(h, 2)

\* in one tick a hungry agent with 3 health points moved and has 1 left, and
\* a hungry agent with 1 health point moved and has 0
C24_Witness ==
    /\ BetweenTicks
    /\ \E i, j \in DOMAIN agents :
          /\ tick_start.agents[i].alive /\ tick_start.agents[j].alive
          /\ agents[i].cid # tick_start.agents[i].cid
          /\ agents[j].cid # tick_start.agents[j].cid
          /\ tick_start.agents[i].health_point = 3
          /\ agents[i].health_point = 1 /\ agents[i].alive
          /\ tick_start.agents[j].health_point = 1
          /\ agents[j].health_point = 0 /\ ~agents[j].alive

\* the agents that were alive after allocation and have died since, in cell c
DiedThisTickIn(c) ==
    {j \in DOMAIN agents :
        after_alloc.agents[j].alive /\ ~agents[j].alive /\ agents[j].cid = c}

\* C25: the steps of a tick take the agents in ascending id order, one agent
\* per step; the neighbor list of a hungry agent holds the resources the
\* cells have at the moment of its step; until its own step an agent is as
\* allocation left it, and a cell differs from what allocation left only
\* where an agent of a lower id than the one stepped next has died.
C25_StepOrder ==
    [][(pc = "step_all_agents" /\ next_id \in DOMAIN agents) =>
          LET a == agents[next_id]
              ids == FourNeighbors(size, a.cid)
          IN  /\ next_id' = next_id + 1
              /\ last_step'.id = next_id
              /\ \A j \in DOMAIN agents :
                    /\ j # next_id => agents'[j] = agents[j]
                    /\ j >= next_id => agents[j] = after_alloc.agents[j]
              /\ \A c \in DOMAIN cells :
                    cells[c] # after_alloc.cells[c] =>
                        \E j \in DiedThisTickIn(c) : j < next_id
              /\ (a.alive /\ a.allocated_resource < a.consumption_rate) =>
                    /\ target'.called
                    /\ neighbor_cells' =
                          [k \in DOMAIN ids |->
                              <<ids[k], cells[ids[k]].cur_resource>>]
      ]_vars

\* an agent has moved into the cell where an agent of a lower id died earlier
\* in the tick, while its list names another cell that would have won had the
\* list held what allocation left
C25_Witness ==
    /\ Stepped /\ last_step.moved
    /\ LET i == last_step.id
           c == agents[i].cid
           old == after_alloc.cells[c].cur_resource
       IN  /\ \E j \in DiedThisTickIn(c) : j < i
           /\ \E k, m \in DOMAIN neighbor_cells :
                 /\ neighbor_cells[k][1] = c
                 /\ neighbor_cells[k][2] > old
                 /\ neighbor_cells[m][1] # c
                 /\ \/ neighbor_cells[m][2] > old
                    \/ neighbor_cells[m][2] = old /\ m > k

\* C26: in a world built with every allocated_resource = 0, every alive
\* agent has allocated_resource = 0 when a tick begins; and an agent that
\* begins a tick alive with consumption_rate >= 1 in a cell holding 0 after
\* regeneration is given nothing by allocation, is hungry, and ends the tick
\* with at least one health point less.
C26_StartsUnfedEveryTick ==
    (\A i \in DOMAIN built : built[i].allocated_resource = 0) =>
        /\ pc \in {"cells_update", "allocate_resources"} =>
              \A i \in DOMAIN agents :
                  agents[i].alive => agents[i].allocated_resource = 0
        /\ BetweenTicks =>
              \A i \in DOMAIN agents :
                  LET before == tick_start.agents[i]
                  IN  (/\ before.alive
                       /\ before.consumption_rate >= 1
                       /\ after_regen[before.cid].cur_resource = 0) =>
                          /\ before.allocated_resource = 0
                          /\ after_alloc.agents[i].allocated_resource = 0
                          /\ after_alloc.cells[before.cid]
                                = after_regen[before.cid]
                          /\ agents[i].health_point
                                <= before.health_point - 1

\* a second or later tick has ended in which an agent that had already lost
\* health stood in a cell holding 0 after regeneration, lost health again and
\* lives
C26_Witness ==
    /\ BetweenTicks /\ ticks >= 2
    /\ \E i \in DOMAIN agents :
          LET before == tick_start.agents[i]
          IN  /\ before.alive /\ agents[i].alive
              /\ before.health_point < built[i].health_point
              /\ after_regen[before.cid].cur_resource = 0
              /\ agents[i].health_point < before.health_point

NumAlive(ags) == Cardinality({i \in DOMAIN ags : ags[i].alive})

\* C27: in a world built with every agent alive and health_point > 0, at
\* every point of every tick every agent is alive iff its health_point > 0,
\* no agent that was dead when the tick began or after allocation is alive,
\* and the number of alive agents does not exceed the number when the tick
\* began or when the world was built.
C27_AliveIffHealthy ==
    (\A i \in DOMAIN built : built[i].alive /\ built[i].health_point > 0) =>
        /\ \A i \in DOMAIN agents :
              /\ agents[i].alive <=> agents[i].health_point > 0
              /\ ~tick_start.agents[i].alive => ~agents[i].alive
              /\ (pc = "step_all_agents" /\ ~after_alloc.agents[i].alive)
                    => ~agents[i].alive
        /\ NumAlive(agents) <= NumAlive(tick_start.agents)
        /\ NumAlive(tick_start.agents) <= NumAlive(built)

\* a tick has ended with an agent that died in an earlier tick, and an agent
\* that has lost health and lives
C27_Witness ==
    /\ BetweenTicks
    /\ \E i, j \in DOMAIN agents :
          /\ ~tick_start.agents[i].alive /\ ~agents[i].alive
          /\ agents[i].health_point = 0
          /\ agents[j].alive
          /\ agents[j].health_point > 0
          /\ agents[j].health_point < tick_start.agents[j].health_point

\* the agents that began the tick alive and are dead, in cell c
DeathsSinceTickStart(c) ==
    {j \in DOMAIN agents :
        tick_start.agents[j].alive /\ ~agents[j].alive /\ agents[j].cid = c}

\* C28: at every point of a tick, the regen_rate of every cell is the rate it
\* had when the tick began plus min(k, max_regen_rate - that rate), where k
\* is the number of agents that have died in the cell in this tick; a cell
\* where no agent died in the tick keeps its rate, whatever dead agents lie
\* in it.
C28_RegenRateOnlyByDeaths ==
    \A c \in DOMAIN cells :
        LET pre == tick_start.cells[c].regen_rate
            k == Cardinality(DeathsSinceTickStart(c))
        IN  /\ cells[c].regen_rate
                  = pre + Min(k, cells[c].max_regen_rate - pre)
            /\ k = 0 => cells[c].regen_rate = pre
            /\ cells[c].max_regen_rate = tick_start.cells[c].max_regen_rate

\* a tick has ended in which one agent died in a cell where an agent dead
\* since an earlier tick lies, and the rate of the cell rose by 1, short of
\* max_regen_rate
C28_Witness ==
    /\ BetweenTicks
    /\ \E c \in DOMAIN cells :
          /\ Cardinality(DeathsSinceTickStart(c)) = 1
          /\ \E j \in DOMAIN agents :
                ~tick_start.agents[j].alive /\ agents[j].cid = c
          /\ cells[c].regen_rate = tick_start.cells[c].regen_rate + 1
          /\ cells[c].regen_rate < cells[c].max_regen_rate

\* C29: in a world without alive agents, under repeated update() calls,
\* from some call on every cell with regen_rate >= 1 holds max_resource
\* after every call; no call changes the cur_resource of a cell with
\* regen_rate 0, nor any regen_rate, and no agent is ever alive.
C29_Regrowth ==
    /\ <>[](\A c \in DOMAIN cells :
              cells[c].regen_rate >= 1 =>
                  cells[c].cur_resource = cells[c].max_resource)
    /\ [][\A c \in DOMAIN cells :
            /\ cells'[c].regen_rate = cells[c].regen_rate
            /\ cells[c].regen_rate = 0 =>
                  cells'[c].cur_resource = cells[c].cur_resource
            /\ cells[c].regen_rate >= 1 =>
                  cells'[c].cur_resource >= cells[c].cur_resource]_vars
    /\ [](NumAlive(agents) = 0)

\* an update() call has just filled a cell with regen_rate 1 in which a dead
\* agent lies, while a cell with regen_rate 0 still holds 7
C29_Witness ==
    /\ result = "Ok"
    /\ NumAlive(agents) = 0
    /\ \E c, d \in DOMAIN cells :
          /\ cells[c].regen_rate = 1
          /\ tick_start.cells[c].cur_resource < cells[c].max_resource
          /\ cells[c].cur_resource = cells[c].max_resource
          /\ \E j \in DOMAIN agents : agents[j].cid = c
          /\ cells[d].regen_rate = 0
          /\ cells[d].cur_resource = 7

====
